---- MODULE Spec2Model ----
(***************************************************************************)
(* Model of data_diff/databases/oceanbase_cloud.py: the OceanBase (Oracle  *)
(* mode) Dialect rendering rules and the OceanBaseOracle connection        *)
(* manager that reaches the database through jaydebeapi / jpype.           *)
(*                                                                         *)
(* Spec        : worker threads running create_connection and              *)
(*               _query_cursor against the process-wide JVM.               *)
(* SpecDialect : the pure Dialect functions applied to bounded inputs.     *)
(***************************************************************************)
EXTENDS Integers, Sequences, FiniteSets, TLC

VARIABLES
    SESSION_TIME_ZONE, \* module global, line 18
    conn_args,         \* OceanBaseOracle.conn_args, lines 139-144
    jvmStarted,        \* what jpype.isJVMStarted() returns
    startCalls,        \* number of jpype.startJVM calls made in the process
    startArgs,         \* the (jvm_path, class path) pairs handed to jpype.startJVM
    pc,                \* each worker thread's position in create_connection
    calls,             \* create_connection calls begun in the process
    attempts,          \* ob.connect attempts made by the thread's current call
    conn,              \* the local `conn` of the thread's current call (0: none)
    raised,            \* the exception caught by the thread's current call
    outcome,           \* what the thread's last finished create_connection did
    conns,             \* the sessions opened so far, each with its statement log
    lastQuery,         \* what the thread's last _query_cursor call did
    call               \* the last Dialect function applied, with its result

connVars == <<SESSION_TIME_ZONE, conn_args, jvmStarted, startCalls, startArgs,
              pc, calls, attempts, conn, raised, outcome, conns, lastQuery>>
vars == <<SESSION_TIME_ZONE, conn_args, jvmStarted, startCalls, startArgs,
          pc, calls, attempts, conn, raised, outcome, conns, lastQuery, call>>

----------------------------------------------------------------------------
(* Bounds of the model *)

ThreadCount == 2
MaxCalls == 3
MaxQueries == 1

Threads == 1..ThreadCount

----------------------------------------------------------------------------
(* Python values: None, strings and exceptions *)

PyNone == [py |-> "None"]
PyStr(s) == [py |-> "str", s |-> s]   \* s: the text, a sequence of pieces
PyInt(n) == [py |-> "int", n |-> n]
Exc(type, args) == [py |-> "exc", type |-> type, args |-> args]

\* bool(v), as `if SESSION_TIME_ZONE:` and `if offset:` take it
Truthy(v) == (v.py = "str" /\ v.s # <<>>) \/ (v.py = "int" /\ v.n # 0)

RECURSIVE Str(_)
RECURSIVE StrAll(_, _)
\* str(v), as a sequence of text pieces: BaseException.__str__ gives '' for no
\* args, str(args[0]) for one, and the text of the args tuple otherwise
Str(v) ==
    IF v.py = "None" THEN <<"None">>
    ELSE IF v.py = "str" THEN v.s
    ELSE IF Len(v.args) = 0 THEN <<>>
    ELSE IF Len(v.args) = 1 THEN Str(v.args[1])
    ELSE <<"(">> \o StrAll(v.args, 1) \o <<")">>
StrAll(args, i) ==
    IF i > Len(args) THEN <<>>
    ELSE <<"'">> \o Str(args[i]) \o <<"'">>
         \o (IF i < Len(args) THEN <<", ">> ELSE <<>>) \o StrAll(args, i + 1)

\* the exception types of the driver stack; every one derives from Exception
DriverTypes == {"jaydebeapi.DatabaseError", "java.sql.SQLException", "OSError"}

----------------------------------------------------------------------------
(* Dialect.set_timezone_to_utc and the statement create_connection issues *)

set_timezone_to_utc == <<"ALTER SESSION SET TIME_ZONE = '", "UTC", "'">>

AlterSessionAlwaysUtc(tz) == set_timezone_to_utc
AlterSession(tz) == <<"ALTER SESSION SET TIME_ZONE = '">> \o Str(tz) \o <<"'">>

----------------------------------------------------------------------------
(* The connection configuration *)

JarPaths == {"/opt/drivers/oceanbase-client.jar"}
DriverClass == "com.oceanbase.jdbc.Driver"
TimeZones == {PyNone, PyStr(<<>>), PyStr(<<"UTC">>), PyStr(<<"Asia/Shanghai">>)}

\* OceanBaseOracle.__init__: the arguments kept for jaydebeapi.connect
InitConnArgs(jar, driver) ==
    [jclassname |-> driver, url |-> "jdbc:oceanbase://host:1521/db",
     driver_args |-> <<"user", "password">>, jars |-> jar]

\* every path the configuration supplies
ConfigPaths == {conn_args.jars}

jvm_path == "/Library/Java/JavaVirtualMachines/zulu-8.jdk/Contents/Home/jre/lib/server/libjvm.dylib"

\* the arguments of the jpype.startJVM call
StartJVMArgs == [jvm_path |-> jvm_path, class_path |-> conn_args["jars"]]

----------------------------------------------------------------------------
(* The failures the bridge and the driver can raise *)

AlreadyStarted == Exc("OSError", <<PyStr(<<"JVM is already started">>)>>)
StartErrors == {Exc("OSError", <<PyStr(<<"JVM not found">>)>>)}
ConnectErrors ==
    {Exc("jaydebeapi.DatabaseError", <<PyStr(<<"ORA-01017: invalid username/password">>)>>),
     Exc("java.sql.SQLException", <<PyStr(<<"ORA-12541">>), PyStr(<<"no listener">>)>>)}
AlterErrors == {Exc("jaydebeapi.DatabaseError", <<PyStr(<<"ORA-01804: time zone">>)>>)}
QueryErrors ==
    {Exc("jaydebeapi.DatabaseError", <<PyStr(<<"ORA-00942: table or view does not exist">>)>>),
     Exc("java.sql.SQLException", <<>>)}

NoExc == [py |-> "no exception"]
NoOutcome == [kind |-> "none"]
NoQuery == [sql |-> <<>>, super |-> [kind |-> "none"], result |-> [kind |-> "none"]]
NoCall == [fn |-> "none"]

\* `raise ConnectError(*e.args) from e`
ConnectErrorDropsArgs(e) == Exc("ConnectError", <<>>)
ConnectError(e) == Exc("ConnectError", e.args)

\* `raise QueryError(e)`
QueryErrorReraises(e) == e
QueryError(e) == Exc("QueryError", <<e>>)

----------------------------------------------------------------------------
(* OceanBaseOracle.create_connection, step by step *)

InitConn ==
    /\ SESSION_TIME_ZONE \in TimeZones
    /\ \E jar \in JarPaths : conn_args = InitConnArgs(jar, DriverClass)
    /\ jvmStarted = FALSE
    /\ startCalls = 0
    /\ startArgs = {}
    /\ pc = [t \in Threads |-> "idle"]
    /\ calls = 0
    /\ attempts = [t \in Threads |-> 0]
    /\ conn = [t \in Threads |-> 0]
    /\ raised = [t \in Threads |-> NoExc]
    /\ outcome = [t \in Threads |-> NoOutcome]
    /\ conns = <<>>
    /\ lastQuery = [t \in Threads |-> NoQuery]

\* the except clause: the caught exception leaves the call as a ConnectError
Fail(t, e) ==
    /\ raised' = [raised EXCEPT ![t] = e]
    /\ outcome' = [outcome EXCEPT ![t] = [kind |-> "raise", exc |-> ConnectError(e)]]
    /\ pc' = [pc EXCEPT ![t] = "idle"]

\* a worker enters create_connection and evaluates `not jpype.isJVMStarted()`
IsJVMStarted(t) ==
    /\ pc[t] = "idle"
    /\ calls < MaxCalls
    /\ calls' = calls + 1
    /\ attempts' = [attempts EXCEPT ![t] = 0]
    /\ conn' = [conn EXCEPT ![t] = 0]
    /\ raised' = [raised EXCEPT ![t] = NoExc]
    /\ outcome' = [outcome EXCEPT ![t] = NoOutcome]
    /\ pc' = [pc EXCEPT ![t] = IF jvmStarted THEN "connect" ELSE "startJVM"]
    /\ UNCHANGED <<SESSION_TIME_ZONE, conn_args, jvmStarted, startCalls, startArgs,
                   conns, lastQuery, call>>

\* jpype.startJVM(jvm_path, "-ea", "-Djava.class.path=...")
StartJVM(t) ==
    /\ pc[t] = "startJVM"
    /\ startCalls' = startCalls + 1
    /\ startArgs' = startArgs \cup {StartJVMArgs}
    /\ \/ /\ ~jvmStarted
          /\ jvmStarted' = TRUE
          /\ pc' = [pc EXCEPT ![t] = "connect"]
          /\ UNCHANGED <<raised, outcome>>
       \/ /\ ~jvmStarted
          /\ \E e \in StartErrors : Fail(t, e)
          /\ UNCHANGED jvmStarted
       \/ /\ jvmStarted
          /\ Fail(t, AlreadyStarted)
          /\ UNCHANGED jvmStarted
    /\ UNCHANGED <<SESSION_TIME_ZONE, conn_args, calls, attempts, conn, conns, lastQuery,
                   call>>

\* ob.connect(**self.conn_args), and the return when no time zone is set
Connect(t) ==
    /\ pc[t] = "connect"
    /\ attempts' = [attempts EXCEPT ![t] = @ + 1]
    /\ \/ /\ conns' = Append(conns, [owner |-> t, log |-> <<>>, queries |-> 0])
          /\ conn' = [conn EXCEPT ![t] = Len(conns) + 1]
          /\ IF Truthy(SESSION_TIME_ZONE)
             THEN /\ pc' = [pc EXCEPT ![t] = "alter"]
                  /\ UNCHANGED <<raised, outcome>>
             ELSE /\ pc' = [pc EXCEPT ![t] = "idle"]
                  /\ outcome' = [outcome EXCEPT ![t] =
                                    [kind |-> "conn", conn |-> Len(conns) + 1]]
                  /\ UNCHANGED raised
       \/ /\ \E e \in ConnectErrors : Fail(t, e)
          /\ UNCHANGED <<conn, conns>>
    /\ UNCHANGED <<SESSION_TIME_ZONE, conn_args, jvmStarted, startCalls, startArgs,
                   calls, lastQuery, call>>

\* conn.cursor().execute(f"ALTER SESSION SET TIME_ZONE = '{SESSION_TIME_ZONE}'")
\* on the session just opened, then `return conn`
SetTimeZone(t) ==
    /\ pc[t] = "alter"
    /\ LET c == conn[t]
           issued == [conns EXCEPT ![c].log = Append(@, AlterSession(SESSION_TIME_ZONE))]
       IN  \/ /\ conns' = issued
              /\ outcome' = [outcome EXCEPT ![t] = [kind |-> "conn", conn |-> c]]
              /\ pc' = [pc EXCEPT ![t] = "idle"]
              /\ UNCHANGED raised
           \/ /\ conns' = issued
              /\ \E e \in AlterErrors : Fail(t, e)
    /\ UNCHANGED <<SESSION_TIME_ZONE, conn_args, jvmStarted, startCalls, startArgs,
                   calls, attempts, conn, lastQuery, call>>

----------------------------------------------------------------------------
(* OceanBaseOracle._query_cursor *)

SqlCodes == {<<"SELECT count(*) FROM T">>}
Rows == {<<1>>}

\* what super()._query_cursor(c, sql_code) can do: return rows or raise
SuperOutcomes ==
    [kind : {"rows"}, rows : Rows] \cup [kind : {"raise"}, exc : QueryErrors]

\* try: return super()._query_cursor(c, sql_code)
\* except Exception as e: raise QueryError(e)
query_cursor(sup) ==
    IF sup.kind = "raise" THEN [kind |-> "raise", exc |-> QueryError(sup.exc)] ELSE sup

\* a worker runs one statement on the connection its create_connection returned
QueryCursor(t) ==
    /\ pc[t] = "idle"
    /\ outcome[t].kind = "conn"
    /\ LET c == outcome[t].conn IN
        /\ conns[c].queries < MaxQueries
        /\ \E sql \in SqlCodes, sup \in SuperOutcomes :
            /\ conns' = [conns EXCEPT ![c].log = Append(@, sql),
                                      ![c].queries = @ + 1]
            /\ lastQuery' = [lastQuery EXCEPT ![t] =
                                [sql |-> sql, super |-> sup, result |-> query_cursor(sup)]]
    /\ UNCHANGED <<SESSION_TIME_ZONE, conn_args, jvmStarted, startCalls, startArgs,
                   pc, calls, attempts, conn, raised, outcome, call>>

NextConn ==
    \/ \E t \in Threads : IsJVMStarted(t)
    \/ \E t \in Threads : StartJVM(t)
    \/ \E t \in Threads : Connect(t)
    \/ \E t \in Threads : SetTimeZone(t)
    \/ \E t \in Threads : QueryCursor(t)

----------------------------------------------------------------------------
(* Dialect.limit_select *)

DigitChars == <<"0", "1", "2", "3", "4", "5", "6", "7", "8", "9">>
IsDigit(c) == \E i \in 1..10 : DigitChars[i] = c
\* int(c) of one digit character
DigitValue(c) == (CHOOSE i \in 1..10 : DigitChars[i] = c) - 1

RECURSIVE IntStr(_)
\* str(n) of a non-negative int, character by character
IntStr(n) == IF n < 10 THEN <<DigitChars[n + 1]>>
             ELSE IntStr(n \div 10) \o <<DigitChars[(n % 10) + 1]>>

\* f"{v}" of an Optional[int]
Format(v) == IF v.py = "None" THEN <<"N", "o", "n", "e">> ELSE IntStr(v.n)

limit_select(select_query, offset, limit) ==
    IF Truthy(offset)
    THEN [kind |-> "raise",
          exc |-> Exc("NotImplementedError",
                      <<PyStr(<<"OFFSET is not supported in OceanBase Oracle mode">>)>>)]
    ELSE [kind |-> "return",
          sql |-> <<"SELECT * FROM (", select_query, ") FETCH NEXT ">>
                  \o Format(limit) \o <<" ROWS ONLY">>]

\* the text reads SELECT * FROM (<query>) FETCH NEXT <digits> ROWS ONLY
IsRowLimitingSql(sql) ==
    /\ Len(sql) >= 5
    /\ sql[1] = "SELECT * FROM ("
    /\ sql[3] = ") FETCH NEXT "
    /\ sql[Len(sql)] = " ROWS ONLY"
    /\ \A i \in 4..(Len(sql) - 1) : IsDigit(sql[i])

SelectQueries == {"SELECT * FROM T", "SELECT a FROM T ORDER BY a"}
Offsets == {PyNone, PyInt(0), PyInt(1), PyInt(20)}
Limits == {PyNone, PyInt(0), PyInt(5), PyInt(100)}

CallLimitSelect ==
    /\ \E q \in SelectQueries, offset \in Offsets, limit \in Limits :
        call' = [fn |-> "limit_select", select_query |-> q, offset |-> offset,
                 limit |-> limit, result |-> limit_select(q, offset, limit)]
    /\ UNCHANGED connVars

----------------------------------------------------------------------------
(* Dialect.is_distinct_from, and the engine's evaluation of what it renders *)

Col(name) == [e |-> "col", name |-> name]
Num(n) == [e |-> "num", n |-> n]
NullLiteral == [e |-> "null"]

\* a <> b, the plain inequality
is_distinct_from_plain(a, b) == [e |-> "<>", l |-> a, r |-> b]
\* f"DECODE({a}, {b}, 1, 0) = 0"
is_distinct_from(a, b) ==
    [e |-> "=", l |-> [e |-> "DECODE", args |-> <<a, b, Num(1), Num(0)>>], r |-> Num(0)]

\* SQL values: <<>> is NULL, <<v>> the value v
Null == <<>>
SqlValues == {Null, <<1>>, <<2>>}

RECURSIVE Eval(_, _)
\* Oracle-mode evaluation over one row: DECODE(expr, search, result, default)
\* takes two NULLs as equal; a comparison with a NULL operand is UNKNOWN
Eval(x, row) ==
    CASE x.e = "col" -> row[x.name]
      [] x.e = "num" -> <<x.n>>
      [] x.e = "null" -> Null
      [] x.e = "DECODE" ->
            IF Eval(x.args[1], row) = Eval(x.args[2], row)
            THEN Eval(x.args[3], row) ELSE Eval(x.args[4], row)
      [] x.e = "=" ->
            LET l == Eval(x.l, row)
                r == Eval(x.r, row)
            IN  IF l = Null \/ r = Null THEN "UNKNOWN"
                ELSE IF l = r THEN "TRUE" ELSE "FALSE"
      [] x.e = "<>" ->
            LET l == Eval(x.l, row)
                r == Eval(x.r, row)
            IN  IF l = Null \/ r = Null THEN "UNKNOWN"
                ELSE IF l = r THEN "FALSE" ELSE "TRUE"

Operands == {Col("a"), Col("b"), Num(1), NullLiteral}
SqlRows == [{"a", "b"} -> SqlValues]

CallIsDistinctFrom ==
    /\ \E a \in Operands, b \in Operands, row \in SqlRows :
        call' = [fn |-> "is_distinct_from", a |-> a, b |-> b, row |-> row,
                 result |-> is_distinct_from(a, b)]
    /\ UNCHANGED connVars

----------------------------------------------------------------------------
(* Dialect.normalize_timestamp, and the engine's evaluation of what it renders *)

TIMESTAMP_PRECISION_POS == 20

\* 'YYYY-MM-DD HH24:MI:SS.' followed by FF<ff>, or by nothing when ff is 0
Fmt(ff) == [base |-> "YYYY-MM-DD HH24:MI:SS.", ff |-> ff]

\* the rendering without the RPAD
normalize_timestamp_unpadded(value, coltype) ==
    IF coltype.rounds
    THEN [e |-> "to_char", fmt |-> Fmt(6),
          x |-> [e |-> "cast", x |-> value, precision |-> coltype.precision]]
    ELSE [e |-> "to_char", x |-> value, fmt |-> Fmt(coltype.precision)]
normalize_timestamp(value, coltype) ==
    IF coltype.rounds
    THEN [e |-> "to_char", fmt |-> Fmt(6),
          x |-> [e |-> "cast", x |-> value, precision |-> coltype.precision]]
    ELSE LET truncated == IF coltype.precision > 0
                          THEN [e |-> "to_char", x |-> value, fmt |-> Fmt(coltype.precision)]
                          ELSE [e |-> "to_char", x |-> value, fmt |-> Fmt(0)]
         IN  [e |-> "RPAD", x |-> truncated, n |-> TIMESTAMP_PRECISION_POS + 6, pad |-> "0"]

RECURSIVE Pow10(_)
Pow10(n) == IF n = 0 THEN 1 ELSE 10 * Pow10(n - 1)

\* n as exactly w decimal digits
RECURSIVE Padded(_, _)
Padded(n, w) == IF w = 0 THEN <<>> ELSE Padded(n \div 10, w - 1) \o <<DigitChars[(n % 10) + 1]>>

\* CAST(ts AS TIMESTAMP(p)): the fraction rounded half up to p digits, the
\* carry taken into the seconds and the day
CastTimestamp(ts, p) ==
    LET unit == Pow10(9 - p)
        n == ((ts.nanos + (unit \div 2)) \div unit) * unit
        s == IF n = Pow10(9) THEN ts.sod + 1 ELSE ts.sod
    IN  [day |-> IF s = 86400 THEN ts.day + 1 ELSE ts.day,
         sod |-> s % 86400,
         nanos |-> n % Pow10(9)]

\* TO_CHAR(ts, 'YYYY-MM-DD HH24:MI:SS.FF<ff>') of a timestamp of January 2022:
\* FF<ff> gives the first ff digits of the nine-digit fraction
ToChar(ts, fmt) ==
    <<"2", "0", "2", "2", "-", "0", "1", "-">> \o Padded(ts.day, 2) \o <<" ">>
    \o Padded(ts.sod \div 3600, 2) \o <<":">> \o Padded((ts.sod \div 60) % 60, 2)
    \o <<":">> \o Padded(ts.sod % 60, 2) \o <<".">>
    \o SubSeq(Padded(ts.nanos, 9), 1, fmt.ff)

\* RPAD(s, n, pad): s cut to n characters, or filled up to n with pad
Rpad(s, n, pad) ==
    IF Len(s) >= n THEN SubSeq(s, 1, n) ELSE s \o [i \in 1..(n - Len(s)) |-> pad]

RECURSIVE EvalText(_, _)
\* the engine's result for a rendered expression over the column value ts
EvalText(x, ts) ==
    CASE x.e = "col" -> ts
      [] x.e = "cast" -> CastTimestamp(EvalText(x.x, ts), x.precision)
      [] x.e = "to_char" -> ToChar(EvalText(x.x, ts), x.fmt)
      [] x.e = "RPAD" -> Rpad(EvalText(x.x, ts), x.n, x.pad)

Precisions == 0..9
TemporalTypes == [precision : Precisions, rounds : BOOLEAN]
StoredTimestamps ==
    [day : {30}, sod : {45296, 86399},
     nanos : {0, 5, 120000000, 123456789, 500000000, 999999500, 999999999}]

CallNormalizeTimestamp ==
    /\ \E coltype \in TemporalTypes, ts \in StoredTimestamps :
        call' = [fn |-> "normalize_timestamp", coltype |-> coltype, ts |-> ts,
                 result |-> normalize_timestamp(Col("ts"), coltype)]
    /\ UNCHANGED connVars

----------------------------------------------------------------------------
(* Dialect.parse_type *)

ROUNDS_ON_PREC_LOSS == TRUE

TYPE_CLASSES ==
    (<<"NUMBER">> :> "Decimal") @@ (<<"FLOAT">> :> "Float") @@ (<<"CHAR">> :> "Text")
    @@ (<<"NCHAR">> :> "Text") @@ (<<"NVARCHAR2">> :> "Text") @@ (<<"VARCHAR2">> :> "Text")
    @@ (<<"DATE">> :> "Timestamp") @@ (<<"TIMESTAMP">> :> "Timestamp")

\* the same rules, the generic one first
regexps_generic_first ==
    << [re |-> <<"TIMESTAMP", "(", "\\d", ")">>, cls |-> "Timestamp"],
       [re |-> <<"TIMESTAMP", "(", "\\d", ")", " WITH", " LOCAL", " TIME ZONE">>,
        cls |-> "Timestamp"],
       [re |-> <<"TIMESTAMP", "(", "\\d", ")", " WITH", " TIME ZONE">>,
        cls |-> "TimestampTZ"] >>
\* the pattern -> class rules, in the order the dict literal lists them
regexps ==
    << [re |-> <<"TIMESTAMP", "(", "\\d", ")", " WITH", " LOCAL", " TIME ZONE">>,
        cls |-> "Timestamp"],
       [re |-> <<"TIMESTAMP", "(", "\\d", ")", " WITH", " TIME ZONE">>,
        cls |-> "TimestampTZ"],
       [re |-> <<"TIMESTAMP", "(", "\\d", ")">>, cls |-> "Timestamp"] >>

\* whether the pattern matches at the start of s (reaching its end, if anchored)
Matches(re, s, anchored) ==
    /\ Len(s) >= Len(re)
    /\ anchored => Len(s) = Len(re)
    /\ \A i \in 1..Len(re) : IF re[i] = "\\d" THEN IsDigit(s[i]) ELSE s[i] = re[i]

\* m.group(1): the text the pattern's \d took
Group1(re, s) == s[CHOOSE i \in 1..Len(re) : re[i] = "\\d"]

RECURSIVE match_regexps_from(_, _, _, _)
match_regexps_from(rs, s, anchored, i) ==
    IF i > Len(rs) THEN <<>>
    ELSE (IF Matches(rs[i].re, s, anchored) THEN <<rs[i]>> ELSE <<>>)
         \o match_regexps_from(rs, s, anchored, i + 1)
\* the rules that match s, in the rules' order
match_regexps(rs, s, anchored) == match_regexps_from(rs, s, anchored, 1)

\* the base class's default mapping: the class TYPE_CLASSES names for the raw
\* type, built from the column's declared precision, else the unknown type
super_parse_type(info) ==
    LET t == info.data_type IN
    IF t.py = "str" /\ t.s \in DOMAIN TYPE_CLASSES
    THEN LET cls == TYPE_CLASSES[t.s] IN
         CASE cls = "Timestamp" ->
                [kind |-> "Timestamp", precision |-> info.datetime_precision,
                 rounds |-> ROUNDS_ON_PREC_LOSS]
           [] cls = "Decimal" -> [kind |-> "Decimal", precision |-> info.numeric_scale]
           [] cls = "Float" -> [kind |-> "Float", precision |-> info.numeric_precision]
           [] cls = "Text" -> [kind |-> "Text"]
    ELSE [kind |-> "UnknownColType", text |-> t]

\* parse_type without the guard on a missing data_type: re.match raises on None
parse_type_unguarded(info, anchored) ==
    IF info.data_type.py = "None"
    THEN [kind |-> "raise",
          exc |-> Exc("TypeError", <<PyStr(<<"expected string or bytes-like object">>)>>)]
    ELSE LET ms == match_regexps(regexps, Str(info.data_type), anchored) IN
         IF ms # <<>>
         THEN [kind |-> "return",
               value |-> [kind |-> ms[1].cls,
                          precision |-> DigitValue(Group1(ms[1].re, Str(info.data_type))),
                          rounds |-> ROUNDS_ON_PREC_LOSS]]
         ELSE [kind |-> "return", value |-> super_parse_type(info)]
parse_type(info, anchored) ==
    LET data_type_str == IF info.data_type.py # "None" THEN Str(info.data_type) ELSE <<>>
    IN  IF data_type_str = <<>> \/ data_type_str = <<"None">>
        THEN [kind |-> "return", value |-> super_parse_type(info)]
        ELSE LET ms == match_regexps(regexps, data_type_str, anchored) IN
             IF ms # <<>>
             THEN [kind |-> "return",
                   value |-> [kind |-> ms[1].cls,
                              precision |-> DigitValue(Group1(ms[1].re, data_type_str)),
                              rounds |-> ROUNDS_ON_PREC_LOSS]]
             ELSE [kind |-> "return", value |-> super_parse_type(info)]

\* the raw type texts TIMESTAMP(<d>)<tail>
TimestampText(d, tail) == <<"TIMESTAMP", "(">> \o d \o <<")">> \o tail
WithTimeZone == <<" WITH", " TIME ZONE">>
WithLocalTimeZone == <<" WITH", " LOCAL", " TIME ZONE">>
PrecisionTexts ==
    {<<DigitChars[i]>> : i \in 1..10} \cup {<<>>, <<"1", "0">>, <<"x">>}
Tails == {<<>>, WithTimeZone, WithLocalTimeZone, <<" WITH">>, WithTimeZone \o <<" X">>}
DataTypes ==
    {PyNone, PyStr(<<>>), PyStr(<<"None">>), PyStr(<<"BLOB">>), PyStr(<<"NUMBER">>),
     PyStr(<<"FLOAT">>), PyStr(<<"VARCHAR2">>), PyStr(<<"DATE">>), PyStr(<<"TIMESTAMP">>)}
    \cup {PyStr(TimestampText(d, tail)) : d \in PrecisionTexts, tail \in Tails}

\* a row of select_table_schema: datetime_precision is the constant 6
RawColumnInfo(data_type) ==
    [column_name |-> "C", data_type |-> data_type, datetime_precision |-> 6,
     numeric_precision |-> 10, numeric_scale |-> 2]

ColTypes ==
    [kind : {"Timestamp", "TimestampTZ"}, precision : 0..9, rounds : BOOLEAN]
    \cup [kind : {"Decimal", "Float"}, precision : 0..38]
    \cup [kind : {"Text"}]
    \cup [kind : {"UnknownColType"}, text : DataTypes]

CallParseType ==
    /\ \E data_type \in DataTypes, anchored \in BOOLEAN :
        call' = [fn |-> "parse_type", info |-> RawColumnInfo(data_type),
                 anchored |-> anchored,
                 result |-> parse_type(RawColumnInfo(data_type), anchored)]
    /\ UNCHANGED connVars

----------------------------------------------------------------------------
(* The Dialect functions applied to bounded inputs *)

NextDialect ==
    \/ CallLimitSelect
    \/ CallIsDistinctFrom
    \/ CallNormalizeTimestamp
    \/ CallParseType


----------------------------------------------------------------------------
(* Specifications *)

Init == InitConn /\ call = NoCall
Next == NextConn
Spec == Init /\ [][Next]_vars
SpecDialect == Init /\ [][NextDialect]_vars

----------------------------------------------------------------------------
(* Properties of the connection manager, checked under Spec *)

\* the statements of a session's log equal to stmt
Issued(c, stmt) == {i \in 1..Len(conns[c].log) : conns[c].log[i] = stmt}

\* C1: the check `not jpype.isJVMStarted()` and jpype.startJVM are guarded, so
\* that no worker reaches the startJVM call once the JVM is started
C1_StartIsGuarded ==
    \A t \in Threads : pc[t] = "startJVM" => ~jvmStarted

C3_FailureRaisesConnectError ==
    \A t \in Threads :
        /\ attempts[t] <= 1
        /\ raised[t].py = "exc" <=> outcome[t].kind = "raise"
        /\ outcome[t].kind = "raise" =>
            /\ outcome[t].exc.type = "ConnectError"
            /\ outcome[t].exc.args = raised[t].args
            /\ Str(outcome[t].exc) = Str(raised[t])

\* a call failed at its last step, the session already open, and another failed
\* with a two-argument driver error
C3_Witness ==
    /\ \E t \in Threads :
        outcome[t].kind = "raise" /\ raised[t] \in AlterErrors /\ attempts[t] = 1
    /\ \E t \in Threads :
        outcome[t].kind = "raise" /\ raised[t].py = "exc" /\ Len(raised[t].args) = 2

\* C4: a failure under _query_cursor reaches the caller as a QueryError whose
\* text is the driver error's text, never as the driver's own exception type,
\* and rows are returned only when the execution returned them
C4_FailureRaisesQueryError ==
    \A t \in Threads :
        LET q == lastQuery[t] IN
        /\ q.super.kind = "raise" =>
            /\ q.result.kind = "raise"
            /\ q.result.exc.type = "QueryError"
            /\ q.result.exc.type \notin DriverTypes
            /\ Str(q.result.exc) = Str(q.super.exc)
        /\ q.result.kind = "rows" => q.super = q.result

\* a statement failed with a driver error that carries a message
C4_Witness ==
    \E t \in Threads :
        /\ lastQuery[t].super.kind = "raise"
        /\ Str(lastQuery[t].super.exc) # <<>>
        /\ lastQuery[t].result.kind = "raise"

----------------------------------------------------------------------------
(* Properties of the Dialect, checked under SpecDialect *)

\* C5: limit_select called with an offset requested raises the unsupported-
\* operation error and returns no text, and whatever text it returns is
\* well-formed row-limiting SQL with a numeric limit
C5_LimitSelectWellFormed ==
    call.fn = "limit_select" =>
        /\ (call.offset.py = "int" /\ call.offset.n > 0) =>
            /\ call.result.kind = "raise"
            /\ call.result.exc.type = "NotImplementedError"
        /\ call.result.kind = "return" => IsRowLimitingSql(call.result.sql)

\* C6: what is_distinct_from(a, b) renders evaluates to TRUE when a and b
\* differ, two NULLs counting as equal, to FALSE otherwise, and never to UNKNOWN
C6_NullSafeInequality ==
    call.fn = "is_distinct_from" =>
        Eval(call.result, call.row) =
            (IF Eval(call.a, call.row) = Eval(call.b, call.row) THEN "FALSE" ELSE "TRUE")

\* each row of the truth table with a NULL operand has been evaluated
C6_Witness ==
    /\ call.fn = "is_distinct_from"
    /\ call.a = Col("a") /\ call.b = Col("b")
    /\ call.row["a"] = Null /\ call.row["b"] = <<2>>
    /\ Eval(call.result, call.row) = "TRUE"


C8_FixedLengthTimestamp ==
    call.fn = "normalize_timestamp" =>
        LET out == EvalText(call.result, call.ts)
            p == call.coltype.precision
        IN  /\ Len(out) = TIMESTAMP_PRECISION_POS + 6
            /\ \A i \in (TIMESTAMP_PRECISION_POS + p + 1)..Len(out) : out[i] = "0"
            /\ \A i \in (TIMESTAMP_PRECISION_POS + 1)..Len(out) : IsDigit(out[i])
            /\ call.coltype.rounds =>
                /\ call.result.e = "to_char"
                /\ call.result.x = [e |-> "cast", x |-> Col("ts"), precision |-> p]

\* a value with nine fractional digits was rendered for a non-rounding type of
\* precision 3: the three digits kept, then zeros
C8_Witness ==
    /\ call.fn = "normalize_timestamp"
    /\ ~call.coltype.rounds /\ call.coltype.precision = 3
    /\ call.ts.nanos = 123456789
    /\ SubSeq(EvalText(call.result, call.ts), 20, 26)
          = <<".", "1", "2", "3", "0", "0", "0">>

\* C10: for every digit n, TIMESTAMP(n) WITH TIME ZONE parses to TimestampTZ,
\* TIMESTAMP(n) WITH LOCAL TIME ZONE and TIMESTAMP(n) to Timestamp, each with
\* precision n and rounds = ROUNDS_ON_PREC_LOSS = TRUE
C10_FirstMatchWins ==
    call.fn = "parse_type" =>
        \A i \in 1..10 :
            LET d == <<DigitChars[i]>>
                s == call.info.data_type
                Parsed(kind) == [kind |-> "return",
                                 value |-> [kind |-> kind, precision |-> i - 1,
                                            rounds |-> TRUE]]
            IN  /\ s = PyStr(TimestampText(d, WithTimeZone)) =>
                    call.result = Parsed("TimestampTZ")
                /\ s = PyStr(TimestampText(d, WithLocalTimeZone)) =>
                    call.result = Parsed("Timestamp")
                /\ s = PyStr(TimestampText(d, <<>>)) =>
                    call.result = Parsed("Timestamp")

\* TIMESTAMP(9) WITH TIME ZONE was parsed by a matcher that is not anchored at
\* the end, under which the generic rule matches it too
C10_Witness ==
    /\ call.fn = "parse_type"
    /\ call.info.data_type = PyStr(TimestampText(<<"9">>, WithTimeZone))
    /\ ~call.anchored
    /\ Matches(regexps[3].re, call.info.data_type.s, call.anchored)
    /\ call.result.value.kind = "TimestampTZ"

\* C9: every path handed to jpype.startJVM is a path of the configuration
C9_StartPathsFromConfig ==
    \A a \in startArgs : a.jvm_path \in ConfigPaths /\ a.class_path \in ConfigPaths

====
